---- MODULE Spec2Model ----
(***************************************************************************)
(* Model of the ECR-push driven Bedrock agent deployment pipeline:         *)
(*   auto_deploy_lambda.py  lambda_handler  (the Deployment Reactor)       *)
(*   deploy.py              deploy          (the Build Trigger)            *)
(*   setup.py               setup           (the Resource Provisioner)     *)
(* Every action is one remote call of the code together with the local     *)
(* statements that follow it up to the next remote call.                   *)
(***************************************************************************)
EXTENDS Integers, Sequences, FiniteSets, TLC

(* ------------------------------ bounds --------------------------------- *)
\* reactor invocations (Lambda executions of lambda_handler) in a behaviour
MaxInv == 2
\* images published to the repository in a behaviour
MaxPushes == 2
\* seconds the wall clock may advance in a behaviour
MaxTicks == 2
\* deploy() runs in a behaviour
MaxDeploys == 1
\* polls of deploy() that may observe a non-terminal status
MaxPolls == 2
\* remote calls of setup() that may fail in a behaviour
MaxFaults == 1
\* setup() runs in a behaviour
MaxRuns == 2
\* requests the tool executor receives in a behaviour
MaxRequests == 1

Invs == 1..MaxInv

(* ------------------------- ambient configuration ----------------------- *)
\* context.invoked_function_arn.split(':')[4] / sts get_caller_identity
AccountId == "123456789012"
\* os.environ['AWS_REGION'] / boto3 session region
Region == "us-east-1"
\* os.environ['ECR_REPO'], setup.py repo_name
RepoName == "agent-core-tools"
\* auto_deploy_lambda.py lambda_function_name, deploy.py function_name
ToolFunctionName == "AgentCoreToolExecutor"

VARIABLES
  clock,      \* wall clock read by datetime.now()
  images,     \* repository listing as describe_images returns it, newest first
  events,     \* push events matched by the rule, not yet relayed
  pushes,     \* number of images published so far
  toolFn,     \* the compute function AgentCoreToolExecutor
  agents,     \* Bedrock agents, in creation order
  s3,         \* objects of the bucket: key -> body
  pc,         \* per invocation: the remote call lambda_handler is about to make
  loc,        \* per invocation: lambda_handler's local variables
  calls,      \* per invocation: the remote calls made so far, in order
  result,     \* per invocation: the value lambda_handler returned
  lastOk,     \* the invocation that most recently returned 200, or 0
  dpc,        \* deploy(): the remote call it is about to make
  dloc,       \* deploy(): local variables
  dcalls,     \* deploy(): remote calls made so far
  build,      \* status of the CodeBuild build started by deploy()
  deploys,    \* number of deploy() runs started
  cloud,      \* setup(): provisioned resources, identity -> configuration
  spc,        \* setup(): the remote call it is about to make
  sids,       \* setup(): identifiers obtained in the current run
  slog,       \* setup(): remote calls and sleeps of the current run
  serrs,      \* setup(): steps of the run that failed other than 'already exists'
  sfaults,    \* setup(): remote calls that failed so far
  runs,       \* setup(): finished runs, oldest first
  tpc,        \* tool executor: whether a request is waiting or answered
  tevent,     \* tool executor: the event of the request
  tenv,       \* tool executor: what the runtime offers (pytz, local time)
  tresp,      \* tool executor: what lambda_handler returned or raised
  treqs,      \* tool executor: requests received so far
  vpc,        \* test client: the call the script is about to make
  vlisting,   \* test client: the agentSummaries list_agents returned
  vagent,     \* test client: the agent it selected
  vlog        \* test client: the prompts issued so far and their outcome

reactorVars == <<clock, images, events, pushes, toolFn, agents, s3, pc,
                 loc, calls, result, lastOk>>
deployVars == <<dpc, dloc, dcalls, build, deploys>>
setupVars == <<cloud, spc, sids, slog, serrs, sfaults, runs>>
toolVars == <<tpc, tevent, tenv, tresp, treqs>>
clientVars == <<vpc, vlisting, vagent, vlog>>
vars == <<clock, images, events, pushes, toolFn, agents, s3, pc, loc, calls, result, lastOk, dpc, dloc, dcalls, build, deploys, cloud, spc,
          sids, slog, serrs, sfaults, runs, tpc, tevent, tenv, tresp, treqs,
          vpc, vlisting, vagent, vlog>>

(* --------------------------- pure helpers ------------------------------ *)
DigitStr == <<"0", "1", "2", "3", "4", "5", "6", "7", "8", "9">>
\* str consists of decimal digits only
IsDigits(str) == \A k \in 1..Len(str) : SubSeq(str, k, k) \in {DigitStr[d] : d \in 1..10}

\* %H, %M, %S, %m, %d : two digits, zero padded
Pad2(n) == DigitStr[((n \div 10) % 10) + 1] \o DigitStr[(n % 10) + 1]
\* %Y : four digits
Pad4(n) == Pad2(n \div 100) \o Pad2(n % 100)

\* datetime.strftime('%Y%m%d-%H%M%S')
Strftime(t) == Pad4(t.year) \o Pad2(t.month) \o Pad2(t.day) \o "-"
               \o Pad2(t.hour) \o Pad2(t.minute) \o Pad2(t.second)

\* one second later on the wall clock (within the day)
NextSecond(t) ==
  IF t.second < 59 THEN [t EXCEPT !.second = t.second + 1]
  ELSE IF t.minute < 59 THEN [t EXCEPT !.second = 0, !.minute = t.minute + 1]
  ELSE [t EXCEPT !.second = 0, !.minute = 0, !.hour = t.hour + 1]

StartClock == [year |-> 2024, month |-> 3, day |-> 7,
               hour |-> 9, minute |-> 59, second |-> 58]

SecondOfDay(t) == 3600 * t.hour + 60 * t.minute + t.second

\* the wall clock n seconds after t
RECURSIVE ClockAfter(_, _)
ClockAfter(t, n) == IF n = 0 THEN t ELSE ClockAfter(NextSecond(t), n - 1)

\* what datetime.now() may return when the previous reading was t: the
\* clock does not run backwards and advances at most MaxTicks in a behaviour
Now(t) == {ClockAfter(t, n) :
             n \in 0..(SecondOfDay(StartClock) + MaxTicks - SecondOfDay(t))}

\* the wall clock once a sleep that began no earlier than the reading ts
\* is over: later than ts
AfterSleep(t, ts) == IF Strftime(t) = ts THEN NextSecond(t) ELSE t

\* digest of the n-th published image
Digest(n) == "sha256:" \o DigitStr[n + 1]

\* f"{account_id}.dkr.ecr.{region}.amazonaws.com/{repo_name}@{image_digest}"
ImageUri(d) == AccountId \o ".dkr.ecr." \o Region \o ".amazonaws.com/"
               \o RepoName \o "@" \o d

\* the name built without the separator after the prefix
AgentNameNoSeparator(ts) == "agent-core" \o ts

\* f"agent-core-{timestamp}"
AgentName(ts) == "agent-core-" \o ts

\* the first put_object given the pointer's key
VersionedKeyIsPointer(ts) == "agents/latest.json"

\* f'agents/agent-{timestamp}.json'
VersionedKey(ts) == "agents/agent-" \o ts \o ".json"

\* the key deploy() looks up after the build
DeployCheckKey == "agent-configs/latest.json"

\* the pointer written under the key deploy() looks up
LatestKeyOfDeploy == DeployCheckKey

\* the pointer key written by lambda_handler
LatestKey == "agents/latest.json"

\* ['Configuration']['FunctionArn'] of a Lambda function
FunctionArn(name) == "arn:aws:lambda:" \o Region \o ":" \o AccountId
                     \o ":function:" \o name

\* agentId assigned by create_agent to the n-th agent of the account
AgentId(n) == "AGENT" \o DigitStr[n + 1]

\* json.dumps of a dict: its members in insertion order
JsonDumps(fields, d) == [k \in 1..Len(fields) |-> <<fields[k], d[fields[k]]>>]

\* json.loads of such a text: the mapping from member name to (last) value
JsonLoads(b) ==
  [n \in {b[k][1] : k \in 1..Len(b)} |->
     b[CHOOSE k \in 1..Len(b) :
         b[k][1] = n /\ \A j \in 1..Len(b) : b[j][1] = n => j <= k][2]]

\* s3.put_object(Bucket=bucket, Key=key, Body=body)
S3Put(store, key, body) ==
  [k \in DOMAIN store \cup {key} |-> IF k = key THEN body ELSE store[k]]

EmptyStore == [k \in {} |-> <<>>]

\* s3.get_object(Bucket=bucket, Key=key): NoSuchKey when the key is absent
S3Get(store, key) ==
  IF key \in DOMAIN store THEN [found |-> TRUE, body |-> store[key]]
                          ELSE [found |-> FALSE, body |-> <<>>]

(* ===================== Deployment Reactor: lambda_handler =============== *)
AgentInfoFields ==
  <<"agent_id", "agent_name", "version", "image_uri", "lambda_arn", "created_at">>

\* agent_info of an invocation with locals l
AgentInfo(l) ==
  [agent_id |-> l.agent_id, agent_name |-> AgentName(l.timestamp),
   version |-> l.timestamp, image_uri |-> l.image_uri,
   lambda_arn |-> l.lambda_arn, created_at |-> l.timestamp]

SummaryFields == <<"agent_id", "agent_name", "version", "image_uri">>

\* the value returned on success
Summary(l) ==
  [statusCode |-> 200, body |-> JsonDumps(SummaryFields, AgentInfo(l))]

NoImagesResult == [statusCode |-> 400, body |-> "No images found"]
LambdaNotFoundResult == [statusCode |-> 400, body |-> "Lambda not found"]
NoResult == [statusCode |-> 0, body |-> ""]

\* the function schema declared for the action group
ToolSchema == {"get_weather", "calculate"}

NoLocals == [image_uri |-> "", timestamp |-> "", lambda_arn |-> "",
             agent_id |-> ""]

\* the steps of lambda_handler that are remote calls
RemoteSteps == {"describe_images", "update_function_code", "get_function",
                "create_agent", "create_agent_action_group", "prepare_agent",
                "put_versioned", "put_latest"}

Returned(i) == pc[i] = "returned"
Raised(i) == pc[i] = "raised"
Running(i) == pc[i] \in RemoteSteps
Quiescent == \A i \in Invs : ~Running(i)

\* invocation slots are taken in order
SlotFree(i) == pc[i] = "idle" /\ (IF i = 1 THEN TRUE ELSE pc[i - 1] # "idle")

\* the remote call made at step p
CallOf(p) == IF p \in {"put_versioned", "put_latest"} THEN "put_object" ELSE p

\* a completed remote call as the log keeps it; put_object with Key and Body
Call(op) == [op |-> op, key |-> "", body |-> <<>>]
PutCall(key, body) == [op |-> "put_object", key |-> key, body |-> body]
\* the error raised by the call of operation op, which changed nothing
Raise(op) == [op |-> "raise", key |-> op, body |-> <<>>]

Log(i, op) == [calls EXCEPT ![i] = Append(@, Call(op))]

\* the operations invocation i has called, in order
Ops(i) == [k \in 1..Len(calls[i]) |-> calls[i][k].op]

\* an image is published: it becomes the first of the listing and the rule
\* AgentCoreECRPushTrigger matches the push
Publish ==
  /\ images' = <<Digest(pushes + 1)>> \o images
  /\ events' = Append(events, Digest(pushes + 1))
  /\ pushes' = pushes + 1

\* docker push by someone other than the build
ExternalPush ==
  /\ pushes < MaxPushes
  /\ Publish
  /\ UNCHANGED <<clock, toolFn, agents, s3, pc, loc, calls, result,
                 lastOk>>
  /\ UNCHANGED deployVars /\ UNCHANGED setupVars
  /\ UNCHANGED toolVars /\ UNCHANGED clientVars

\* the rule's target is invoked for a matched push
EventRelay(i) ==
  /\ SlotFree(i)
  /\ events # <<>>
  /\ events' = Tail(events)
  /\ pc' = [pc EXCEPT ![i] = "describe_images"]
  /\ UNCHANGED <<clock, images, pushes, toolFn, agents, s3, loc, calls,
                 result, lastOk>>
  /\ UNCHANGED deployVars /\ UNCHANGED setupVars
  /\ UNCHANGED toolVars /\ UNCHANGED clientVars

\* lambda_handler is invoked without a push (a test invocation)
DirectInvoke(i) ==
  /\ SlotFree(i)
  /\ pc' = [pc EXCEPT ![i] = "describe_images"]
  /\ UNCHANGED <<clock, images, events, pushes, toolFn, agents, s3, loc, calls, result, lastOk>>
  /\ UNCHANGED deployVars /\ UNCHANGED setupVars
  /\ UNCHANGED toolVars /\ UNCHANGED clientVars

\* the handler without its empty check
ImageCheckMissing(listing) ==
  [next |-> "update_function_code", result |-> NoResult,
   image_uri |-> ImageUri(IF listing = <<>> THEN "" ELSE listing[1])]

\* the branch on images['imageDetails'] and the image reference derived
\* from imageDetails[0]
ImageCheck(listing) ==
  IF listing = <<>>
    THEN [next |-> "returned", result |-> NoImagesResult, image_uri |-> ""]
    ELSE [next |-> "update_function_code", result |-> NoResult,
          image_uri |-> ImageUri(listing[1])]

\* ecr.describe_images(maxResults=1), the empty check, image_uri, timestamp
DescribeImages(i) ==
  /\ pc[i] = "describe_images"
  /\ calls' = Log(i, "describe_images")
  /\ pc' = [pc EXCEPT ![i] = ImageCheck(images).next]
  /\ result' = [result EXCEPT ![i] = ImageCheck(images).result]
  /\ IF ImageCheck(images).next = "returned"
       THEN UNCHANGED <<loc, clock>>
       ELSE /\ clock' \in Now(clock)
            /\ loc' = [loc EXCEPT ![i].image_uri = ImageCheck(images).image_uri,
                                  ![i].timestamp = Strftime(clock')]
  /\ UNCHANGED <<images, events, pushes, toolFn, agents, s3, lastOk>>
  /\ UNCHANGED deployVars /\ UNCHANGED setupVars
  /\ UNCHANGED toolVars /\ UNCHANGED clientVars

\* the handler creating the function when it is missing
CodeUpdateOrCreate(fn, uri) ==
  [next |-> "get_function", result |-> NoResult,
   fn |-> [exists |-> TRUE, image |-> uri]]

\* update_function_code(ImageUri=uri) on the function fn, with the
\* ResourceNotFoundException branch
CodeUpdate(fn, uri) ==
  IF ~fn.exists
    THEN [next |-> "returned", result |-> LambdaNotFoundResult, fn |-> fn]
    ELSE [next |-> "get_function", result |-> NoResult,
          fn |-> [fn EXCEPT !.image = uri]]

\* lambda_client.update_function_code, ResourceNotFoundException caught
UpdateFunctionCode(i) ==
  /\ pc[i] = "update_function_code"
  /\ calls' = Log(i, "update_function_code")
  /\ pc' = [pc EXCEPT ![i] = CodeUpdate(toolFn, loc[i].image_uri).next]
  /\ result' = [result EXCEPT ![i] = CodeUpdate(toolFn, loc[i].image_uri).result]
  /\ toolFn' = CodeUpdate(toolFn, loc[i].image_uri).fn
  /\ loc' = IF CodeUpdate(toolFn, loc[i].image_uri).next = "returned"
              THEN [loc EXCEPT ![i] = NoLocals] ELSE loc
  /\ UNCHANGED <<clock, images, events, pushes, agents, s3, lastOk>>
  /\ UNCHANGED deployVars /\ UNCHANGED setupVars
  /\ UNCHANGED toolVars /\ UNCHANGED clientVars

\* lambda_client.get_function(...)['Configuration']['FunctionArn']; sleep(5)
GetFunction(i) ==
  /\ pc[i] = "get_function"
  /\ toolFn.exists
  /\ AfterSleep(clock, loc[i].timestamp) \in Now(clock)
  /\ clock' = AfterSleep(clock, loc[i].timestamp)
  /\ loc' = [loc EXCEPT ![i].lambda_arn = FunctionArn(ToolFunctionName)]
  /\ calls' = [calls EXCEPT ![i] =
                 @ \o <<Call("get_function"), Call("sleep")>>]
  /\ pc' = [pc EXCEPT ![i] = "create_agent"]
  /\ UNCHANGED <<images, events, pushes, toolFn, agents, s3, result, lastOk>>
  /\ UNCHANGED deployVars /\ UNCHANGED setupVars
  /\ UNCHANGED toolVars /\ UNCHANGED clientVars

\* the agent create_agent makes for invocation i
NewAgent(i) ==
  [id |-> AgentId(Len(agents) + 1), name |-> AgentName(loc[i].timestamp),
   executor |-> "", functions |-> {}, prepared |-> FALSE,
   by |-> i, image |-> loc[i].image_uri]

\* bedrock.create_agent(agentName=agent_name, ...); sleep(10)
CreateAgent(i) ==
  /\ pc[i] = "create_agent"
  /\ agents' = Append(agents, NewAgent(i))
  /\ loc' = [loc EXCEPT ![i].agent_id = NewAgent(i).id]
  /\ calls' = [calls EXCEPT ![i] =
                 @ \o <<Call("create_agent"), Call("sleep")>>]
  /\ pc' = [pc EXCEPT ![i] = "create_agent_action_group"]
  /\ UNCHANGED <<clock, images, events, pushes, toolFn, s3, result,
                 lastOk>>
  /\ UNCHANGED deployVars /\ UNCHANGED setupVars
  /\ UNCHANGED toolVars /\ UNCHANGED clientVars

\* an operation reaching the newest agent, whatever id it was given
TargetsNewest(id) == {k \in 1..Len(agents) : k = Len(agents)}

\* the agents an operation on agentId = id changes
Targets(id) == {k \in 1..Len(agents) : agents[k].id = id}

\* bedrock.create_agent_action_group(agentId=agent_id, ...)
CreateActionGroup(i) ==
  /\ pc[i] = "create_agent_action_group"
  /\ agents' = [k \in 1..Len(agents) |->
                  IF k \in Targets(loc[i].agent_id)
                    THEN [agents[k] EXCEPT !.executor = loc[i].lambda_arn,
                                           !.functions = ToolSchema]
                    ELSE agents[k]]
  /\ calls' = Log(i, "create_agent_action_group")
  /\ pc' = [pc EXCEPT ![i] = "prepare_agent"]
  /\ UNCHANGED <<clock, images, events, pushes, toolFn, s3, loc,
                 result, lastOk>>
  /\ UNCHANGED deployVars /\ UNCHANGED setupVars
  /\ UNCHANGED toolVars /\ UNCHANGED clientVars

\* the handler going on to the records without preparing the agent
PrepareAgentSkipped(i) ==
  /\ pc[i] = "prepare_agent"
  /\ pc' = [pc EXCEPT ![i] = "put_versioned"]
  /\ UNCHANGED <<clock, images, events, pushes, toolFn, agents, s3, loc,
                 calls, result, lastOk>>
  /\ UNCHANGED deployVars /\ UNCHANGED setupVars
  /\ UNCHANGED toolVars /\ UNCHANGED clientVars

\* bedrock.prepare_agent(agentId=agent_id)
PrepareAgent(i) ==
  /\ pc[i] = "prepare_agent"
  /\ agents' = [k \in 1..Len(agents) |->
                  IF k \in Targets(loc[i].agent_id)
                    THEN [agents[k] EXCEPT !.prepared = TRUE]
                    ELSE agents[k]]
  /\ calls' = Log(i, "prepare_agent")
  /\ pc' = [pc EXCEPT ![i] = "put_versioned"]
  /\ UNCHANGED <<clock, images, events, pushes, toolFn, s3, loc,
                 result, lastOk>>
  /\ UNCHANGED deployVars /\ UNCHANGED setupVars
  /\ UNCHANGED toolVars /\ UNCHANGED clientVars

\* Body=json.dumps(agent_info, indent=2)
RecordBody(i) == JsonDumps(AgentInfoFields, AgentInfo(loc[i]))

\* s3.put_object(Key=f'agents/agent-{timestamp}.json', ...)
PutVersioned(i) ==
  /\ pc[i] = "put_versioned"
  /\ s3' = S3Put(s3, VersionedKey(loc[i].timestamp), RecordBody(i))
  /\ calls' = [calls EXCEPT ![i] =
                 Append(@, PutCall(VersionedKey(loc[i].timestamp), RecordBody(i)))]
  /\ pc' = [pc EXCEPT ![i] = "put_latest"]
  /\ UNCHANGED <<clock, images, events, pushes, toolFn, agents, loc,
                 result, lastOk>>
  /\ UNCHANGED deployVars /\ UNCHANGED setupVars
  /\ UNCHANGED toolVars /\ UNCHANGED clientVars

\* s3.put_object(Key='agents/latest.json', ...) and the 200 return
PutLatest(i) ==
  /\ pc[i] = "put_latest"
  /\ s3' = S3Put(s3, LatestKey, RecordBody(i))
  /\ calls' = [calls EXCEPT ![i] = Append(@, PutCall(LatestKey, RecordBody(i)))]
  /\ result' = [result EXCEPT ![i] = Summary(loc[i])]
  /\ lastOk' = i
  /\ pc' = [pc EXCEPT ![i] = "returned"]
  /\ loc' = [loc EXCEPT ![i] = NoLocals]
  /\ UNCHANGED <<clock, images, events, pushes, toolFn, agents>>
  /\ UNCHANGED deployVars /\ UNCHANGED setupVars
  /\ UNCHANGED toolVars /\ UNCHANGED clientVars

\* a handler that deletes the agent it created when a later call raises
RemoteFaultRollback(i) ==
  /\ Running(i)
  /\ calls' = [calls EXCEPT ![i] = Append(@, Raise(CallOf(pc[i])))]
  /\ pc' = [pc EXCEPT ![i] = "raised"]
  /\ agents' = SelectSeq(agents, LAMBDA a : a.by # i)
  /\ loc' = [loc EXCEPT ![i] = NoLocals]
  /\ UNCHANGED <<clock, images, events, pushes, toolFn, s3, result, lastOk>>
  /\ UNCHANGED deployVars /\ UNCHANGED setupVars
  /\ UNCHANGED toolVars /\ UNCHANGED clientVars

\* a remote call raises an error the handler does not catch
RemoteFault(i) ==
  /\ Running(i)
  /\ calls' = [calls EXCEPT ![i] = Append(@, Raise(CallOf(pc[i])))]
  /\ pc' = [pc EXCEPT ![i] = "raised"]
  /\ loc' = [loc EXCEPT ![i] = NoLocals]
  /\ UNCHANGED <<clock, images, events, pushes, toolFn, agents, s3, result, lastOk>>
  /\ UNCHANGED deployVars /\ UNCHANGED setupVars
  /\ UNCHANGED toolVars /\ UNCHANGED clientVars

(* ========================= Build Trigger: deploy ======================== *)
TerminalFailures == {"FAILED", "FAULT", "TIMED_OUT", "STOPPED"}
NonTerminal == {"PENDING", "IN_PROGRESS"}

\* the archive deploy() uploads
SourceZip == << <<"tool_executor.py", "file">>, <<"Dockerfile", "file">>,
                <<"buildspec.yml", "file">> >>

NoDeployLocals == [image_uri |-> "", role_arn |-> "", report |-> "",
                   returned |-> "", polls |-> 0,
                   config |-> [found |-> FALSE, body |-> <<>>]]

\* the steps of deploy() after the poll loop
PostBuildSteps == {"d_describe_images", "d_get_role", "d_create_function",
                   "d_update_function_code", "d_get_object"}
PostBuildOps == {"describe_images", "get_role", "create_function",
                 "update_function_code", "get_object"}

DLog(op, arg) == Append(dcalls, <<op, arg>>)

\* deploy() is called: sts.get_caller_identity() gives the account id, or
\* raises and ends the run; then the source is packaged
DeployStart ==
  /\ dpc \in {"idle", "returned", "raised"}
  /\ deploys < MaxDeploys
  /\ deploys' = deploys + 1
  /\ dloc' = NoDeployLocals
  /\ \/ dpc' = "d_put_object" /\ dcalls' = <<>>
     \/ dpc' = "raised" /\ dcalls' = << <<"raise", "d_get_caller_identity">> >>
  /\ UNCHANGED build
  /\ UNCHANGED reactorVars /\ UNCHANGED setupVars
  /\ UNCHANGED toolVars /\ UNCHANGED clientVars

\* s3.put_object(Bucket=bucket_name, Key='source.zip', Body=...)
DeployPutSource ==
  /\ dpc = "d_put_object"
  /\ s3' = S3Put(s3, "source.zip", SourceZip)
  /\ dcalls' = DLog("put_object", "source.zip")
  /\ dpc' = "d_start_build"
  /\ UNCHANGED <<clock, images, events, pushes, toolFn, agents, pc, loc, calls, result, lastOk>>
  /\ UNCHANGED <<dloc, build, deploys>>
  /\ UNCHANGED setupVars
  /\ UNCHANGED toolVars /\ UNCHANGED clientVars

\* codebuild.start_build(projectName='agent-core-builder')
DeployStartBuild ==
  /\ dpc = "d_start_build"
  /\ build' = "PENDING"
  /\ dcalls' = DLog("start_build", "agent-core-builder")
  /\ dpc' = "poll"
  /\ UNCHANGED <<dloc, deploys>>
  /\ UNCHANGED reactorVars /\ UNCHANGED setupVars
  /\ UNCHANGED toolVars /\ UNCHANGED clientVars

\* the build system moves the build on; a terminal status never changes and
\* a build that succeeds has pushed its image
BuildAdvance ==
  /\ build \in NonTerminal
  /\ \/ /\ build = "PENDING"
        /\ build' = "IN_PROGRESS"
        /\ UNCHANGED <<images, events, pushes>>
     \/ /\ build' \in TerminalFailures
        /\ UNCHANGED <<images, events, pushes>>
     \/ /\ build = "IN_PROGRESS"
        /\ pushes < MaxPushes
        /\ build' = "SUCCEEDED"
        /\ Publish
  /\ UNCHANGED <<clock, toolFn, agents, s3, pc, loc, calls, result,
                 lastOk>>
  /\ UNCHANGED <<dpc, dloc, dcalls, deploys>>
  /\ UNCHANGED setupVars
  /\ UNCHANGED toolVars /\ UNCHANGED clientVars

\* the poll loop with FAULT left out of the failure statuses
PollOutcomeNoFault(st) ==
  IF st = "SUCCEEDED"
    THEN [next |-> "d_describe_images", report |-> "succeeded", returned |-> ""]
  ELSE IF st \in TerminalFailures \ {"FAULT"}
    THEN [next |-> "returned", report |-> "failed", returned |-> "False"]
  ELSE [next |-> "poll", report |-> "", returned |-> ""]

\* the poll loop giving up on a build that is still in progress
PollOutcomeGivesUp(st) ==
  IF st = "SUCCEEDED"
    THEN [next |-> "d_describe_images", report |-> "succeeded", returned |-> ""]
  ELSE IF st \in TerminalFailures \cup {"IN_PROGRESS"}
    THEN [next |-> "returned", report |-> "failed", returned |-> "False"]
  ELSE [next |-> "poll", report |-> "", returned |-> ""]

\* what one pass of the poll loop does on reading status st:
\* the step deploy() is at next, what it printed, what it returned
PollOutcome(st) ==
  IF st = "SUCCEEDED"
    THEN [next |-> "d_describe_images", report |-> "succeeded", returned |-> ""]
  ELSE IF st \in TerminalFailures
    THEN [next |-> "returned", report |-> "failed", returned |-> "False"]
  ELSE [next |-> "poll", report |-> "", returned |-> ""]

\* codebuild.batch_get_builds and the branch on buildStatus; sleep(15)
Poll ==
  /\ dpc = "poll"
  /\ build \in NonTerminal => dloc.polls < MaxPolls
  /\ dcalls' = DLog("batch_get_builds", build)
  /\ dpc' = PollOutcome(build).next
  /\ dloc' = [dloc EXCEPT !.report = PollOutcome(build).report,
                          !.returned = PollOutcome(build).returned,
                          !.polls = IF build \in NonTerminal
                                      THEN @ + 1 ELSE @]
  /\ UNCHANGED <<build, deploys>>
  /\ UNCHANGED reactorVars /\ UNCHANGED setupVars
  /\ UNCHANGED toolVars /\ UNCHANGED clientVars

\* sleep(10); ecr.describe_images(maxResults=1); imageDetails[0]
DeployDescribeImages ==
  /\ dpc = "d_describe_images"
  /\ dcalls' = DLog("describe_images", RepoName)
  /\ IF images = <<>>
       THEN dpc' = "raised" /\ dloc' = dloc
       ELSE /\ dpc' = "d_get_role"
            /\ dloc' = [dloc EXCEPT !.image_uri = ImageUri(images[1])]
  /\ UNCHANGED <<build, deploys>>
  /\ UNCHANGED reactorVars /\ UNCHANGED setupVars
  /\ UNCHANGED toolVars /\ UNCHANGED clientVars

\* iam.get_role(RoleName='AgentCoreAutoDeployRole')['Role']['Arn']
DeployGetRole ==
  /\ dpc = "d_get_role"
  /\ dcalls' = DLog("get_role", "AgentCoreAutoDeployRole")
  /\ dloc' = [dloc EXCEPT !.role_arn = "arn:aws:iam::" \o AccountId
                                        \o ":role/AgentCoreAutoDeployRole"]
  /\ dpc' = "d_create_function"
  /\ UNCHANGED <<build, deploys>>
  /\ UNCHANGED reactorVars /\ UNCHANGED setupVars
  /\ UNCHANGED toolVars /\ UNCHANGED clientVars

\* a deploy() that takes the conflict as success and leaves the code as it is
DeployCreateFunctionKeepsCode ==
  /\ dpc = "d_create_function"
  /\ dcalls' = DLog("create_function", dloc.image_uri)
  /\ toolFn' = IF toolFn.exists THEN toolFn
                ELSE [exists |-> TRUE, image |-> dloc.image_uri]
  /\ dpc' = "d_get_object"
  /\ UNCHANGED <<clock, images, events, pushes, agents, s3, pc, loc,
                 calls, result, lastOk>>
  /\ UNCHANGED <<dloc, build, deploys>>
  /\ UNCHANGED setupVars
  /\ UNCHANGED toolVars /\ UNCHANGED clientVars

\* lambda_client.create_function; ResourceConflictException caught
DeployCreateFunction ==
  /\ dpc = "d_create_function"
  /\ dcalls' = DLog("create_function", dloc.image_uri)
  /\ IF toolFn.exists
       THEN dpc' = "d_update_function_code" /\ toolFn' = toolFn
       ELSE /\ dpc' = "d_get_object"
            /\ toolFn' = [exists |-> TRUE, image |-> dloc.image_uri]
  /\ UNCHANGED <<clock, images, events, pushes, agents, s3, pc, loc,
                 calls, result, lastOk>>
  /\ UNCHANGED <<dloc, build, deploys>>
  /\ UNCHANGED setupVars
  /\ UNCHANGED toolVars /\ UNCHANGED clientVars

\* lambda_client.update_function_code in the except branch
DeployUpdateFunctionCode ==
  /\ dpc = "d_update_function_code"
  /\ toolFn.exists
  /\ dcalls' = DLog("update_function_code", dloc.image_uri)
  /\ toolFn' = [toolFn EXCEPT !.image = dloc.image_uri]
  /\ dpc' = "d_get_object"
  /\ UNCHANGED <<clock, images, events, pushes, agents, s3, pc, loc,
                 calls, result, lastOk>>
  /\ UNCHANGED <<dloc, build, deploys>>
  /\ UNCHANGED setupVars
  /\ UNCHANGED toolVars /\ UNCHANGED clientVars

\* s3.get_object(Key='agent-configs/latest.json') under a bare except;
\* deploy() then falls off its end and returns None
DeployGetObject ==
  /\ dpc = "d_get_object"
  /\ dcalls' = DLog("get_object", DeployCheckKey)
  /\ dloc' = [dloc EXCEPT !.config = S3Get(s3, DeployCheckKey),
                          !.returned = "None"]
  /\ dpc' = "returned"
  /\ UNCHANGED <<build, deploys>>
  /\ UNCHANGED reactorVars /\ UNCHANGED setupVars
  /\ UNCHANGED toolVars /\ UNCHANGED clientVars

\* a remote call of deploy() outside a try block raises
DeployFault ==
  /\ dpc \in {"d_put_object", "d_start_build", "poll", "d_describe_images",
              "d_get_role", "d_create_function", "d_update_function_code"}
  /\ dcalls' = DLog("raise", dpc)
  /\ dpc' = "raised"
  /\ UNCHANGED <<dloc, build, deploys>>
  /\ UNCHANGED reactorVars /\ UNCHANGED setupVars
  /\ UNCHANGED toolVars /\ UNCHANGED clientVars

(* ======================= Resource Provisioner: setup ==================== *)
BucketName == "agent-core-configs-" \o AccountId
AgentRole == "BedrockAgentCoreExecutionRole"
LambdaRole == "AgentCoreAutoDeployRole"
ToolRole == "AgentCoreToolExecutorRole"
CodeBuildRole == "AgentCoreCodeBuildRole"
ReactorFunction == "AgentCoreAutoDeployer"
RuleName == "AgentCoreECRPushTrigger"
ProjectName == "agent-core-builder"

RoleArn(name) == "arn:aws:iam::" \o AccountId \o ":role/" \o name

RepoKey == "repository/" \o RepoName
BucketKey == "bucket/" \o BucketName
RoleKey(name) == "role/" \o name
FunctionKey == "function/" \o ReactorFunction
RuleKey == "rule/" \o RuleName
ProjectKey == "project/" \o ProjectName

Exists(key) == key \in DOMAIN cloud

\* the registry with resource key holding configuration cfg
Put(c, key, cfg) ==
  [k \in DOMAIN c \cup {key} |-> IF k = key THEN cfg ELSE c[k]]

\* a named entry (inline policy, target) replaced or added in a set of pairs
Upsert(pairs, name, value) ==
  {q \in pairs : q[1] # name} \cup {<<name, value>>}

\* Environment={'Variables': {...}} of the reactor function
ReactorEnv(agentRoleArn) ==
  [S3_BUCKET |-> BucketName, ECR_REPO |-> RepoName,
   AGENT_ROLE_ARN |-> agentRoleArn]

\* what create_role makes
NewRole(name, trust) ==
  [arn |-> RoleArn(name), trust |-> trust, attached |-> {}, inline |-> {}]

\* what create_function makes
NewFunction(roleArn, agentRoleArn) ==
  [arn |-> FunctionArn(ReactorFunction), code |-> "auto_deploy_lambda.py",
   role |-> roleArn, timeout |-> 300, env |-> ReactorEnv(agentRoleArn),
   permissions |-> {}]

\* event_pattern
PushPattern == "aws.ecr/ECR Image Action/PUSH/SUCCESS/" \o RepoName

\* what create_project makes
NewProject(cbRoleArn) ==
  [source |-> BucketName \o "/source.zip",
   environment |-> "aws/codebuild/standard:7.0", serviceRole |-> cbRoleArn]

\* a resource that existed before setup() ran, configured by someone else
Stale(key) ==
  IF key \in {RepoKey, BucketKey} THEN [kind |-> "storage"]
  ELSE IF key = FunctionKey
    THEN [arn |-> FunctionArn(ReactorFunction), code |-> "old code",
          role |-> "old role", timeout |-> 3,
          env |-> [S3_BUCKET |-> "old", ECR_REPO |-> "old",
                   AGENT_ROLE_ARN |-> "old"],
          permissions |-> {}]
  ELSE IF key = RuleKey
    THEN [pattern |-> "old pattern", state |-> "DISABLED", targets |-> {}]
  ELSE IF key = ProjectKey
    THEN [source |-> "old source", environment |-> "old environment",
          serviceRole |-> "old role"]
  ELSE IF key = RoleKey(AgentRole) THEN
    [NewRole(AgentRole, "old trust") EXCEPT !.inline = {}]
  ELSE IF key = RoleKey(LambdaRole) THEN
    [NewRole(LambdaRole, "old trust") EXCEPT
       !.inline = {<<"AgentCorePolicy", "old policy">>}]
  ELSE IF key = RoleKey(ToolRole) THEN NewRole(ToolRole, "old trust")
  ELSE [NewRole(CodeBuildRole, "old trust") EXCEPT
          !.inline = {<<"CodeBuildPolicy", "old policy">>}]

StorageKeys == {RepoKey, BucketKey}
RoleKeys == {RoleKey(AgentRole), RoleKey(LambdaRole), RoleKey(ToolRole),
             RoleKey(CodeBuildRole)}
ComputeKeys == {FunctionKey, RuleKey, ProjectKey}

\* every separately named thing in the account: resources, attached and
\* inline policies, permission statements, rule targets
ResourceSet(c) ==
  {<<k, "resource", "">> : k \in DOMAIN c}
  \cup UNION {{<<k, "attached", a>> : a \in c[k].attached} :
                k \in DOMAIN c \cap RoleKeys}
  \cup UNION {{<<k, "inline", q[1]>> : q \in c[k].inline} :
                k \in DOMAIN c \cap RoleKeys}
  \cup UNION {{<<k, "permission", st>> : st \in c[k].permissions} :
                k \in DOMAIN c \cap {FunctionKey}}
  \cup UNION {{<<k, "target", t[1]>> : t \in c[k].targets} :
                k \in DOMAIN c \cap {RuleKey}}

NoIds == [agent_role_arn |-> "", role_arn |-> "", tool_role_arn |-> "",
          lambda_arn |-> "", cb_role_arn |-> ""]

\* the steps of setup() whose remote call creates a resource
CreationSteps == {"create_repository", "create_bucket", "create_role(agent)",
                  "create_role(lambda)", "create_role(tool)",
                  "create_function", "add_permission", "put_rule",
                  "create_role(codebuild)", "create_project"}

\* what is recorded of a run when it ends
RunRecord(outcome, c, ids, errs, log) ==
  [outcome |-> outcome, resources |-> ResourceSet(c), cloud |-> c,
   ids |-> ids, errs |-> errs, log |-> log]

\* setup() moves from step to next, leaving the registry c2 and the ids ids2
SetupStep(step, next, c2, ids2, log) ==
  /\ spc = step
  /\ spc' = next
  /\ cloud' = c2
  /\ sids' = ids2
  /\ slog' = slog \o log
  /\ UNCHANGED <<serrs, sfaults>>
  /\ runs' = IF next = "done"
               THEN Append(runs, RunRecord("done", c2, ids2, serrs, slog \o log))
               ELSE runs
  /\ UNCHANGED reactorVars /\ UNCHANGED deployVars
  /\ UNCHANGED toolVars /\ UNCHANGED clientVars

\* the remote call of step fails and a bare except swallows the error
SetupSwallow(step, next) ==
  /\ spc = step
  /\ sfaults < MaxFaults
  /\ sfaults' = sfaults + 1
  /\ serrs' = serrs \cup {step}
  /\ spc' = next
  /\ slog' = slog \o <<step, "error">>
  /\ runs' = IF next = "done"
               THEN Append(runs, RunRecord("done", cloud, sids,
                                           serrs \cup {step},
                                           slog \o <<step, "error">>))
               ELSE runs
  /\ UNCHANGED <<cloud, sids>>
  /\ UNCHANGED reactorVars /\ UNCHANGED deployVars
  /\ UNCHANGED toolVars /\ UNCHANGED clientVars

\* the remote call of step raises and nothing catches it: the run ends
SetupRaise(step, injected) ==
  /\ spc = step
  /\ injected => sfaults < MaxFaults
  /\ sfaults' = IF injected THEN sfaults + 1 ELSE sfaults
  /\ serrs' = IF injected THEN serrs \cup {step} ELSE serrs
  /\ spc' = "aborted"
  /\ slog' = slog \o <<step, "raise">>
  /\ runs' = Append(runs, RunRecord("aborted", cloud, sids, serrs',
                                    slog \o <<step, "raise">>))
  /\ UNCHANGED <<cloud, sids>>
  /\ UNCHANGED reactorVars /\ UNCHANGED deployVars
  /\ UNCHANGED toolVars /\ UNCHANGED clientVars

\* setup() is called: sts.get_caller_identity() gives the account id, or
\* raises and ends the run before anything is created
SetupStart ==
  /\ spc \in {"idle", "done", "aborted"}
  /\ Len(runs) < MaxRuns
  /\ sids' = NoIds
  /\ serrs' = {}
  /\ \/ /\ spc' = "create_repository"
        /\ slog' = <<>>
        /\ UNCHANGED <<sfaults, runs>>
     \/ /\ sfaults < MaxFaults
        /\ sfaults' = sfaults + 1
        /\ spc' = "aborted"
        /\ slog' = <<"get_caller_identity", "raise">>
        /\ runs' = Append(runs, RunRecord("aborted", cloud, NoIds, {},
                                          <<"get_caller_identity", "raise">>))
  /\ UNCHANGED cloud
  /\ UNCHANGED reactorVars /\ UNCHANGED deployVars
  /\ UNCHANGED toolVars /\ UNCHANGED clientVars

\* create_repository without the except clause
CreateRepositoryNoAdopt ==
  \/ /\ ~Exists(RepoKey)
     /\ SetupStep("create_repository", "create_bucket",
                  Put(cloud, RepoKey, [kind |-> "storage"]),
                  sids, <<"create_repository">>)
  \/ /\ Exists(RepoKey)
     /\ SetupRaise("create_repository", FALSE)
  \/ SetupRaise("create_repository", TRUE)

\* 1. ecr.create_repository; RepositoryAlreadyExistsException caught
CreateRepository ==
  \/ SetupStep("create_repository", "create_bucket",
               IF Exists(RepoKey) THEN cloud
               ELSE Put(cloud, RepoKey, [kind |-> "storage"]),
               sids, <<"create_repository">>)
  \/ SetupRaise("create_repository", TRUE)

\* 2. s3.create_bucket under a bare except
CreateBucket ==
  \/ SetupStep("create_bucket", "create_role(agent)",
               IF Exists(BucketKey) THEN cloud
               ELSE Put(cloud, BucketKey, [kind |-> "storage"]),
               sids, <<"create_bucket">>)
  \/ SetupSwallow("create_bucket", "create_role(agent)")

\* iam.create_role with no wait after it
EnsureRoleNoDelay(step, next, name, trust, idField) ==
  \/ SetupStep(step, next,
               IF Exists(RoleKey(name)) THEN cloud
               ELSE Put(cloud, RoleKey(name), NewRole(name, trust)),
               [sids EXCEPT ![idField] = RoleArn(name)],
               IF Exists(RoleKey(name)) THEN <<step, "get_role">>
               ELSE <<step>>)
  \/ SetupRaise(step, TRUE)

\* iam.create_role, sleep(10); EntityAlreadyExistsException -> iam.get_role
EnsureRole(step, next, name, trust, idField) ==
  \/ SetupStep(step, next,
               IF Exists(RoleKey(name)) THEN cloud
               ELSE Put(cloud, RoleKey(name), NewRole(name, trust)),
               [sids EXCEPT ![idField] = RoleArn(name)],
               IF Exists(RoleKey(name)) THEN <<step, "get_role">>
               ELSE <<step, "sleep">>)
  \/ SetupRaise(step, TRUE)

\* iam.attach_role_policy, outside any try
AttachPolicy(step, next, name, policy) ==
  \/ /\ Exists(RoleKey(name))
     /\ SetupStep(step, next,
                  Put(cloud, RoleKey(name),
                      [cloud[RoleKey(name)] EXCEPT !.attached = @ \cup {policy}]),
                  sids, <<step>>)
  \/ SetupRaise(step, TRUE)

\* 3. the agent execution role
CreateAgentRole ==
  EnsureRole("create_role(agent)", "attach_role_policy(agent)", AgentRole,
             "bedrock.amazonaws.com", "agent_role_arn")

AttachAgentPolicy ==
  AttachPolicy("attach_role_policy(agent)", "create_role(lambda)", AgentRole,
               "AmazonBedrockFullAccess")

\* 4. the reactor's execution role
CreateLambdaRole ==
  EnsureRole("create_role(lambda)", "put_role_policy(lambda)", LambdaRole,
             "lambda.amazonaws.com", "role_arn")

\* iam.put_role_policy(PolicyName='AgentCorePolicy') under a bare except
PutLambdaPolicy ==
  \/ /\ Exists(RoleKey(LambdaRole))
     /\ SetupStep("put_role_policy(lambda)", "create_role(tool)",
                  Put(cloud, RoleKey(LambdaRole),
                      [cloud[RoleKey(LambdaRole)] EXCEPT !.inline =
                         Upsert(@, "AgentCorePolicy", sids.agent_role_arn)]),
                  sids, <<"put_role_policy(lambda)">>)
  \/ SetupSwallow("put_role_policy(lambda)", "create_role(tool)")

\* 5. the tool executor's role
CreateToolRole ==
  EnsureRole("create_role(tool)", "attach_role_policy(tool)", ToolRole,
             "lambda.amazonaws.com", "tool_role_arn")

AttachToolPolicy ==
  AttachPolicy("attach_role_policy(tool)", "create_function", ToolRole,
               "AWSLambdaBasicExecutionRole")

\* 6. lambda_client.create_function; ResourceConflictException caught
CreateFunction ==
  \/ IF Exists(FunctionKey)
       THEN SetupStep("create_function", "update_function_code", cloud, sids,
                      <<"create_function">>)
       ELSE SetupStep("create_function", "add_permission",
                      Put(cloud, FunctionKey,
                          NewFunction(sids.role_arn, sids.agent_role_arn)),
                      [sids EXCEPT !.lambda_arn = FunctionArn(ReactorFunction)],
                      <<"create_function">>)
  \/ SetupRaise("create_function", TRUE)

\* lambda_client.update_function_code, sleep(5), under a bare except
UpdateReactorCode ==
  \/ SetupStep("update_function_code", "update_function_configuration",
               Put(cloud, FunctionKey,
                   [cloud[FunctionKey] EXCEPT !.code = "auto_deploy_lambda.py"]),
               sids, <<"update_function_code", "sleep">>)
  \/ SetupSwallow("update_function_code", "update_function_configuration")

\* lambda_client.update_function_configuration under a bare except
UpdateReactorConfiguration ==
  \/ SetupStep("update_function_configuration", "get_function",
               Put(cloud, FunctionKey,
                   [cloud[FunctionKey] EXCEPT
                      !.timeout = 300,
                      !.env = ReactorEnv(sids.agent_role_arn)]),
               sids, <<"update_function_configuration">>)
  \/ SetupSwallow("update_function_configuration", "get_function")

\* lambda_client.get_function(...)['Configuration']['FunctionArn']
GetReactorFunction ==
  \/ SetupStep("get_function", "add_permission", cloud,
               [sids EXCEPT !.lambda_arn = cloud[FunctionKey].arn],
               <<"get_function">>)
  \/ SetupRaise("get_function", TRUE)

\* 7. lambda_client.add_permission(StatementId='AllowEventBridge'), bare except
AddPermission ==
  \/ SetupStep("add_permission", "put_rule",
               Put(cloud, FunctionKey,
                   [cloud[FunctionKey] EXCEPT
                      !.permissions = @ \cup {"AllowEventBridge"}]),
               sids, <<"add_permission">>)
  \/ SetupSwallow("add_permission", "put_rule")

\* 8. events.put_rule under a bare except
PutRule ==
  \/ SetupStep("put_rule", "put_targets",
               Put(cloud, RuleKey,
                   [pattern |-> PushPattern, state |-> "ENABLED",
                    targets |-> IF Exists(RuleKey) THEN cloud[RuleKey].targets
                                ELSE {}]),
               sids, <<"put_rule">>)
  \/ SetupSwallow("put_rule", "put_targets")

\* events.put_targets(Targets=[{'Id': '1', 'Arn': lambda_arn}]), outside a try
PutTargets ==
  \/ /\ Exists(RuleKey)
     /\ SetupStep("put_targets", "create_role(codebuild)",
                  Put(cloud, RuleKey,
                      [cloud[RuleKey] EXCEPT
                         !.targets = Upsert(@, "1", sids.lambda_arn)]),
                  sids, <<"put_targets">>)
  \/ /\ ~Exists(RuleKey)
     /\ SetupRaise("put_targets", FALSE)
  \/ SetupRaise("put_targets", TRUE)

\* 9. iam.create_role for the build, sleep(10), under a bare except
CreateCodeBuildRole ==
  \/ SetupStep("create_role(codebuild)", "put_role_policy(codebuild)",
               IF Exists(RoleKey(CodeBuildRole)) THEN cloud
               ELSE Put(cloud, RoleKey(CodeBuildRole),
                        NewRole(CodeBuildRole, "codebuild.amazonaws.com")),
               sids,
               IF Exists(RoleKey(CodeBuildRole))
                 THEN <<"create_role(codebuild)">>
                 ELSE <<"create_role(codebuild)", "sleep">>)
  \/ SetupSwallow("create_role(codebuild)", "put_role_policy(codebuild)")

\* iam.put_role_policy(PolicyName='CodeBuildPolicy'), outside a try
PutCodeBuildPolicy ==
  \/ /\ Exists(RoleKey(CodeBuildRole))
     /\ SetupStep("put_role_policy(codebuild)", "get_role(codebuild)",
                  Put(cloud, RoleKey(CodeBuildRole),
                      [cloud[RoleKey(CodeBuildRole)] EXCEPT !.inline =
                         Upsert(@, "CodeBuildPolicy", "ecr+s3+logs")]),
                  sids, <<"put_role_policy(codebuild)">>)
  \/ /\ ~Exists(RoleKey(CodeBuildRole))
     /\ SetupRaise("put_role_policy(codebuild)", FALSE)
  \/ SetupRaise("put_role_policy(codebuild)", TRUE)

\* iam.get_role(RoleName=codebuild_role)['Role']['Arn']
GetCodeBuildRole ==
  \/ SetupStep("get_role(codebuild)", "create_project", cloud,
               [sids EXCEPT !.cb_role_arn = cloud[RoleKey(CodeBuildRole)].arn],
               <<"get_role(codebuild)">>)
  \/ SetupRaise("get_role(codebuild)", TRUE)

\* codebuild.create_project under a bare except; then SETUP COMPLETE
CreateProject ==
  \/ SetupStep("create_project", "done",
               IF Exists(ProjectKey) THEN cloud
               ELSE Put(cloud, ProjectKey, NewProject(sids.cb_role_arn)),
               sids, <<"create_project">>)
  \/ SetupSwallow("create_project", "done")

(* ====================== Tool Executor: lambda_handler =================== *)
\* An optional value is <<>> (None, or the key absent) or <<v>>.
NoneValue == <<>>
Some(v) == <<v>>

\* Python truthiness of an optional string: None and '' are falsy
Truthy(o) == o # NoneValue /\ o[1] # ""

\* str.lstrip('/') and str.rstrip('/')
RECURSIVE LStripSlash(_)
LStripSlash(str) ==
  IF Len(str) > 0 /\ SubSeq(str, 1, 1) = "/"
    THEN LStripSlash(SubSeq(str, 2, Len(str)))
    ELSE str

RECURSIVE RStripSlash(_)
RStripSlash(str) ==
  IF Len(str) > 0 /\ SubSeq(str, Len(str), Len(str)) = "/"
    THEN RStripSlash(SubSeq(str, 1, Len(str) - 1))
    ELSE str

\* api_path.strip('/')
StripSlash(str) == RStripSlash(LStripSlash(str))

\* tool_name = function_name or (api_path.strip('/') if api_path else None)
ToolName(function, apiPath) ==
  IF Truthy(function) THEN function
  ELSE IF Truthy(apiPath) THEN Some(StripSlash(apiPath[1]))
  ELSE NoneValue

\* f"{tool_name}": None prints as 'None'
Fmt(o) == IF o = NoneValue THEN "None" ELSE o[1]

\* params.get(name, default) on {p['name']: p['value'] for p in parameters}:
\* the value of the last entry with that name
ParamGet(parameters, name, default) ==
  IF \E k \in 1..Len(parameters) : parameters[k].name = name
    THEN parameters[CHOOSE k \in 1..Len(parameters) :
                      /\ parameters[k].name = name
                      /\ \A j \in (k + 1)..Len(parameters) :
                           parameters[j].name # name].value
    ELSE default

RECURSIVE DigitsValue(_)
DigitsValue(str) ==
  IF Len(str) = 0 THEN 0
  ELSE 10 * DigitsValue(SubSeq(str, 1, Len(str) - 1))
         + (CHOOSE d \in 0..9 : DigitStr[d + 1] = SubSeq(str, Len(str), Len(str)))

\* str is an optional '-' followed by one or more digits
IsNumeral(str) ==
  LET body == IF Len(str) > 0 /\ SubSeq(str, 1, 1) = "-"
                THEN SubSeq(str, 2, Len(str)) ELSE str
  IN Len(body) > 0 /\ IsDigits(body)

\* float(value) on the strings requests carry here: integer numerals, which
\* it converts, and words and the empty string, on which it raises
\* ValueError. The float n.0 is held as the integer n.
Float(str) ==
  IF ~IsNumeral(str) THEN [ok |-> FALSE, val |-> 0]
  ELSE IF SubSeq(str, 1, 1) = "-"
    THEN [ok |-> TRUE, val |-> 0 - DigitsValue(SubSeq(str, 2, Len(str)))]
    ELSE [ok |-> TRUE, val |-> DigitsValue(str)]

RECURSIVE NatStr(_)
NatStr(n) ==
  IF n < 10 THEN DigitStr[n + 1]
  ELSE NatStr(n \div 10) \o DigitStr[(n % 10) + 1]

\* json.dumps of the float n.0
FloatRepr(n) == (IF n < 0 THEN "-" \o NatStr(0 - n) ELSE NatStr(n)) \o ".0"

\* json.dumps of a string without characters that need escaping
Quoted(str) == "\"" \o str \o "\""

WeekDays == <<"Monday", "Tuesday", "Wednesday", "Thursday", "Friday",
              "Saturday", "Sunday">>

\* current_time.strftime("%I:%M %p")
Strftime12(t) ==
  Pad2(IF t.hour % 12 = 0 THEN 12 ELSE t.hour % 12) \o ":" \o Pad2(t.minute)
    \o " " \o (IF t.hour < 12 THEN "AM" ELSE "PM")

\* current_time.strftime("%Y-%m-%d")
StrftimeDate(t) == Pad4(t.year) \o "-" \o Pad2(t.month) \o "-" \o Pad2(t.day)

\* json.dumps(result) of the three result shapes
WeatherBody(city) ==
  "{\"weather\": " \o Quoted("Sunny in " \o city)
    \o ", \"temperature\": 72, \"humidity\": 65}"
SumBody(n) == "{\"result\": " \o FloatRepr(n) \o "}"
ErrorBody(msg) == "{\"error\": " \o Quoted(msg) \o "}"
TimeBody(t, timezone) ==
  "{\"time\": " \o Quoted(Strftime12(t)) \o ", \"date\": "
    \o Quoted(StrftimeDate(t)) \o ", \"timezone\": " \o Quoted(timezone)
    \o ", \"day\": " \o Quoted(WeekDays[t.weekday]) \o "}"

\* the return value of lambda_handler: the Bedrock Agent envelope
Envelope(event, body) ==
  [raised |-> "", messageVersion |-> "1.0", actionGroup |-> event.actionGroup,
   function |-> event.function, body |-> body]

\* lambda_handler ending in an uncaught exception
Raises(exception) ==
  [raised |-> exception, messageVersion |-> "", actionGroup |-> NoneValue,
   function |-> NoneValue, body |-> ""]

\* the time zone names pytz.timezone accepts, among those requests carry
KnownZones == {"UTC", "Asia/Tokyo"}

\* lambda_handler(event, context) with the runtime env: whether pytz can be
\* imported, and the local time datetime.now(tz) returns
ToolExecutor(event, env) ==
  LET params == event.parameters
      tool_name == ToolName(event.function, event.apiPath)
      a == Float(ParamGet(params, "a", "0"))
      b == Float(ParamGet(params, "b", "0"))
      timezone == ParamGet(params, "timezone", "UTC")
  IN IF tool_name = Some("get_weather")
       THEN Envelope(event, WeatherBody(ParamGet(params, "city", "Unknown")))
     ELSE IF tool_name = Some("calculate")
       THEN IF a.ok /\ b.ok THEN Envelope(event, SumBody(a.val + b.val))
                            ELSE Raises("ValueError")
     ELSE IF tool_name = Some("get_time")
       THEN IF ~env.pytz THEN Raises("ModuleNotFoundError")
            ELSE IF timezone \in KnownZones
              THEN Envelope(event, TimeBody(env.now, timezone))
              ELSE Envelope(event, ErrorBody("Invalid timezone: " \o timezone))
     ELSE Envelope(event, ErrorBody("Unknown tool: " \o Fmt(tool_name)))

Param(name, value) == [name |-> name, value |-> value]

\* the requests and runtimes the executor is run on
ParamLists ==
  {<<>>,
   <<Param("a", "2"), Param("b", "40")>>,
   <<Param("a", "-7"), Param("b", "2")>>,
   <<Param("a", "2"), Param("a", "40"), Param("b", "2")>>,
   <<Param("a", "123")>>,
   <<Param("a", "abc"), Param("b", "2")>>,
   <<Param("city", "Tokyo")>>,
   <<Param("timezone", "Asia/Tokyo")>>,
   <<Param("timezone", "Mars/Phobos")>>}
ToolEvents ==
  [actionGroup : {NoneValue, Some("agent-core-tools")},
   apiPath : {NoneValue, Some("/calculate"), Some("/get_weather/"), Some("/")},
   function : {NoneValue, Some(""), Some("calculate"), Some("get_weather"),
               Some("get_time"), Some("unknown_tool")},
   parameters : ParamLists]
LocalTimes ==
  {[year |-> 2024, month |-> 3, day |-> 7, hour |-> 0, minute |-> 5,
    weekday |-> 4],
   [year |-> 2024, month |-> 3, day |-> 10, hour |-> 13, minute |-> 30,
    weekday |-> 7]}

InitTool ==
  /\ tpc = "idle"
  /\ tevent = [actionGroup |-> NoneValue, apiPath |-> NoneValue,
               function |-> NoneValue, parameters |-> <<>>]
  /\ tenv = [pytz |-> TRUE, now |-> CHOOSE t \in LocalTimes : t.hour = 0]
  /\ tresp = Raises("")
  /\ treqs = 0

\* a Bedrock agent (or a direct test) invokes the function with an event
ToolReceive ==
  /\ tpc \in {"idle", "responded"}
  /\ treqs < MaxRequests
  /\ treqs' = treqs + 1
  /\ tevent' \in ToolEvents
  /\ tenv' \in [pytz : BOOLEAN, now : LocalTimes]
  /\ tresp' = Raises("")
  /\ tpc' = "received"
  /\ UNCHANGED reactorVars /\ UNCHANGED deployVars /\ UNCHANGED setupVars
  /\ UNCHANGED clientVars

\* lambda_handler runs on the event
ToolInvoke ==
  /\ tpc = "received"
  /\ tresp' = ToolExecutor(tevent, tenv)
  /\ tpc' = "responded"
  /\ UNCHANGED <<tevent, tenv, treqs>>
  /\ UNCHANGED reactorVars /\ UNCHANGED deployVars /\ UNCHANGED setupVars
  /\ UNCHANGED clientVars

(* ====================== Verification Client: test_agent ================= *)
NoAgent == [agentId |-> "", agentName |-> "", updatedAt |-> 0,
            agentStatus |-> ""]

InitClient ==
  /\ vpc = "idle"
  /\ vlisting = <<>>
  /\ vagent = NoAgent
  /\ vlog = <<>>

\* a['agentName'].startswith('agent-core-')
IsAgentCore(a) ==
  Len(a.agentName) >= 11 /\ SubSeq(a.agentName, 1, 11) = "agent-core-"

\* sorted([a for a in ... if ...], key=lambda x: x['updatedAt'],
\* reverse=True)[0]: the sort is stable, so among the agents updated last
\* the one listed first is taken; <<>> when the filtered list is empty
LatestAgent(listing) ==
  LET mine == SelectSeq(listing, IsAgentCore)
      top == CHOOSE k \in 1..Len(mine) :
               /\ \A j \in 1..Len(mine) : mine[j].updatedAt <= mine[k].updatedAt
               /\ \A j \in 1..(k - 1) : mine[j].updatedAt < mine[k].updatedAt
  IN IF mine = <<>> THEN <<>> ELSE <<mine[top]>>

\* the fixed battery: sessionId and inputText of each invoke_agent call
Prompts ==
  << [sessionId |-> "test-time-1", inputText |-> "What time is it in New York?"],
     [sessionId |-> "test-weather-1", inputText |-> "What is the weather in Tokyo?"],
     [sessionId |-> "test-calc-1", inputText |-> "What is 123 + 456?"] >>

PromptSteps == <<"prompt1", "prompt2", "prompt3">>

\* the script stopping at the first prompt that fails
AfterPromptAbort(k, outcome) ==
  IF outcome = "error" THEN "raised"
  ELSE IF k = Len(Prompts) THEN "done" ELSE PromptSteps[k + 1]

\* where the script goes after prompt k, whether invoke_agent returned
\* ("ok") or the except clause printed the error ("error")
AfterPrompt(k, outcome) ==
  IF k = Len(Prompts) THEN "done" ELSE PromptSteps[k + 1]

\* the agents list_agents may report
Summaries ==
  {[agentId |-> "AGENT1", agentName |-> "agent-core-20240307-095958",
    updatedAt |-> 1, agentStatus |-> "PREPARED"],
   [agentId |-> "AGENT2", agentName |-> "agent-core-20240307-095959",
    updatedAt |-> 2, agentStatus |-> "PREPARED"],
   [agentId |-> "AGENT3", agentName |-> "agent-core-20240307-100000",
    updatedAt |-> 2, agentStatus |-> "NOT_PREPARED"],
   [agentId |-> "AGENT4", agentName |-> "support-bot",
    updatedAt |-> 3, agentStatus |-> "PREPARED"]}

\* listings of distinct agents
Listings ==
  {<<>>} \cup {<<a>> : a \in Summaries}
  \cup {q \in {<<a, b>> : a \in Summaries, b \in Summaries} : q[1] # q[2]}
  \cup {q \in {<<a, b, c>> : a \in Summaries, b \in Summaries, c \in Summaries} :
          q[1] # q[2] /\ q[1] # q[3] /\ q[2] # q[3]}

\* bedrock.list_agents() and the choice of the latest agent-core agent;
\* [0] raises IndexError when there is none
ClientListAgents ==
  /\ vpc = "idle"
  /\ \E listing \in Listings :
       /\ vlisting' = listing
       /\ IF LatestAgent(listing) = <<>>
            THEN vpc' = "raised" /\ vagent' = vagent
            ELSE vpc' = "prompt1" /\ vagent' = LatestAgent(listing)[1]
  /\ UNCHANGED vlog
  /\ UNCHANGED reactorVars /\ UNCHANGED deployVars /\ UNCHANGED setupVars
  /\ UNCHANGED toolVars

\* list_agents itself raises: nothing catches it
ClientListFault ==
  /\ vpc = "idle"
  /\ vpc' = "raised"
  /\ UNCHANGED <<vlisting, vagent, vlog>>
  /\ UNCHANGED reactorVars /\ UNCHANGED deployVars /\ UNCHANGED setupVars
  /\ UNCHANGED toolVars

\* one try block: invoke_agent and the reading of its completion stream,
\* which either goes through or raises into `except Exception`
ClientPrompt(k) ==
  /\ vpc = PromptSteps[k]
  /\ \E outcome \in {"ok", "error"} :
       /\ vlog' = Append(vlog, [agentId |-> vagent.agentId,
                                sessionId |-> Prompts[k].sessionId,
                                inputText |-> Prompts[k].inputText,
                                outcome |-> outcome])
       /\ vpc' = AfterPrompt(k, outcome)
  /\ UNCHANGED <<vlisting, vagent>>
  /\ UNCHANGED reactorVars /\ UNCHANGED deployVars /\ UNCHANGED setupVars
  /\ UNCHANGED toolVars

(* ============================ specifications ============================ *)
\* fn: whether an earlier deploy() has pushed an image and made the function
InitReactor(fn) ==
  /\ clock = StartClock
  /\ events = <<>>
  /\ pushes = 0
  /\ images = IF fn THEN <<Digest(0)>> ELSE <<>>
  /\ toolFn = IF fn THEN [exists |-> TRUE, image |-> ImageUri(Digest(0))]
                    ELSE [exists |-> FALSE, image |-> ""]
  /\ agents = <<>>
  /\ s3 = EmptyStore
  /\ pc = [i \in Invs |-> "idle"]
  /\ loc = [i \in Invs |-> NoLocals]
  /\ calls = [i \in Invs |-> <<>>]
  /\ result = [i \in Invs |-> NoResult]
  /\ lastOk = 0

InitDeploy ==
  /\ dpc = "idle"
  /\ dloc = NoDeployLocals
  /\ dcalls = <<>>
  /\ build = "NONE"
  /\ deploys = 0

\* the registry with the resources of keys made as someone else left them
Preexisting(keys) == [k \in keys |-> Stale(k)]

\* the registry a run of setup() on an empty account leaves
Provisioned ==
  LET roles == [k \in RoleKeys |->
        IF k = RoleKey(AgentRole)
          THEN [NewRole(AgentRole, "bedrock.amazonaws.com") EXCEPT
                  !.attached = {"AmazonBedrockFullAccess"}]
        ELSE IF k = RoleKey(LambdaRole)
          THEN [NewRole(LambdaRole, "lambda.amazonaws.com") EXCEPT
                  !.inline = {<<"AgentCorePolicy", RoleArn(AgentRole)>>}]
        ELSE IF k = RoleKey(ToolRole)
          THEN [NewRole(ToolRole, "lambda.amazonaws.com") EXCEPT
                  !.attached = {"AWSLambdaBasicExecutionRole"}]
        ELSE [NewRole(CodeBuildRole, "codebuild.amazonaws.com") EXCEPT
                  !.inline = {<<"CodeBuildPolicy", "ecr+s3+logs">>}]]
  IN [k \in StorageKeys \cup RoleKeys \cup ComputeKeys |->
        IF k \in StorageKeys THEN [kind |-> "storage"]
        ELSE IF k \in RoleKeys THEN roles[k]
        ELSE IF k = FunctionKey
          THEN [NewFunction(RoleArn(LambdaRole), RoleArn(AgentRole)) EXCEPT
                  !.permissions = {"AllowEventBridge"}]
        ELSE IF k = RuleKey
          THEN [pattern |-> PushPattern, state |-> "ENABLED",
                targets |-> {<<"1", FunctionArn(ReactorFunction)>>}]
        ELSE NewProject(RoleArn(CodeBuildRole))]

InitSetup(c) ==
  /\ cloud = c
  /\ spc = "idle"
  /\ sids = NoIds
  /\ slog = <<>>
  /\ serrs = {}
  /\ sfaults = 0
  /\ runs = <<>>

\* the account right after setup(), or after a first deploy() whose push
\* found no compute function and left no agent
Init ==
  /\ \E fn \in BOOLEAN : InitReactor(fn)
  /\ InitDeploy
  /\ InitSetup(Provisioned)
  /\ InitTool
  /\ InitClient

\* an account before setup(): each group of resources is absent or was left
\* there, configured otherwise, by someone else
InitProvisioner ==
  /\ InitReactor(FALSE)
  /\ InitDeploy
  /\ \E groups \in SUBSET {StorageKeys, RoleKeys, ComputeKeys} :
       InitSetup(Preexisting(UNION groups))
  /\ InitTool
  /\ InitClient

NextReactor ==
  \/ ExternalPush
  \/ \E i \in Invs : EventRelay(i)
  \/ \E i \in Invs : DirectInvoke(i)
  \/ \E i \in Invs : DescribeImages(i)
  \/ \E i \in Invs : UpdateFunctionCode(i)
  \/ \E i \in Invs : GetFunction(i)
  \/ \E i \in Invs : CreateAgent(i)
  \/ \E i \in Invs : CreateActionGroup(i)
  \/ \E i \in Invs : PrepareAgent(i)
  \/ \E i \in Invs : PutVersioned(i)
  \/ \E i \in Invs : PutLatest(i)
  \/ \E i \in Invs : RemoteFault(i)

NextPipeline ==
  \/ \E i \in Invs : EventRelay(i)
  \/ \E i \in Invs : DescribeImages(i)
  \/ \E i \in Invs : UpdateFunctionCode(i)
  \/ \E i \in Invs : GetFunction(i)
  \/ \E i \in Invs : CreateAgent(i)
  \/ \E i \in Invs : CreateActionGroup(i)
  \/ \E i \in Invs : PrepareAgent(i)
  \/ \E i \in Invs : PutVersioned(i)
  \/ \E i \in Invs : PutLatest(i)
  \/ \E i \in Invs : RemoteFault(i)
  \/ DeployStart
  \/ DeployPutSource
  \/ DeployStartBuild
  \/ BuildAdvance
  \/ Poll
  \/ DeployDescribeImages
  \/ DeployGetRole
  \/ DeployCreateFunction
  \/ DeployUpdateFunctionCode
  \/ DeployGetObject
  \/ DeployFault

NextSetup ==
  \/ SetupStart
  \/ CreateRepository
  \/ CreateBucket
  \/ CreateAgentRole
  \/ AttachAgentPolicy
  \/ CreateLambdaRole
  \/ PutLambdaPolicy
  \/ CreateToolRole
  \/ AttachToolPolicy
  \/ CreateFunction
  \/ UpdateReactorCode
  \/ UpdateReactorConfiguration
  \/ GetReactorFunction
  \/ AddPermission
  \/ PutRule
  \/ PutTargets
  \/ CreateCodeBuildRole
  \/ PutCodeBuildPolicy
  \/ GetCodeBuildRole
  \/ CreateProject

\* the Deployment Reactor under image pushes and test invocations
Spec == Init /\ [][NextReactor]_vars

\* deploy(), its build, and the reactor invocations its pushes set off
SpecPipeline == Init /\ [][NextPipeline]_vars

\* setup(), run repeatedly on an account
SpecSetup == InitProvisioner /\ [][NextSetup]_vars

\* deploy() and its build alone
NextDeploy ==
  \/ DeployStart
  \/ DeployPutSource
  \/ DeployStartBuild
  \/ BuildAdvance
  \/ Poll
  \/ DeployDescribeImages
  \/ DeployGetRole
  \/ DeployCreateFunction
  \/ DeployUpdateFunctionCode
  \/ DeployGetObject
  \/ DeployFault

\* the tool executor answering requests
NextTool ==
  \/ ToolReceive
  \/ ToolInvoke

SpecTool == Init /\ [][NextTool]_vars

\* the test script, run once
NextClient ==
  \/ ClientListAgents
  \/ ClientListFault
  \/ \E k \in 1..Len(Prompts) : ClientPrompt(k)

SpecClient == Init /\ [][NextClient]_vars

\* deploy() as a running process: after sleep(15) the loop polls again
SpecPolling == Init /\ [][NextDeploy]_vars /\ WF_vars(Poll)

(* ================================ claims ================================ *)
Succeeded(i) == Returned(i) /\ result[i].statusCode = 200
Failed(i) == Raised(i) \/ (Returned(i) /\ result[i].statusCode # 200)

\* the agents invocation i created
CreatedBy(i) == {k \in 1..Len(agents) : agents[k].by = i}

\* the put_object calls of invocation i, in order
Puts(i) == SelectSeq(calls[i], LAMBDA c : c.op = "put_object")


\* YYYYMMDD-HHMMSS
IsTimestamp(ts) ==
  /\ Len(ts) = 15
  /\ IsDigits(SubSeq(ts, 1, 8))
  /\ SubSeq(ts, 9, 9) = "-"
  /\ IsDigits(SubSeq(ts, 10, 15))

\* agent-core-<timestamp>
IsAgentName(name) ==
  /\ Len(name) = 26
  /\ SubSeq(name, 1, 11) = "agent-core-"
  /\ IsTimestamp(SubSeq(name, 12, 26))

\* the digest-qualified references of the images in the repository
PublishedUris == {ImageUri(images[k]) : k \in 1..Len(images)}

\* C1: an invocation that returned 200 created exactly one agent, named
\* agent-core-<YYYYMMDD-HHMMSS>, and made exactly two put_object calls: first
\* under agents/agent-<that timestamp>.json, then under agents/latest.json,
\* both bodies carrying that agent's id and the digest-qualified reference
\* of a published image, the one the invocation read.
C1_OneAgentBothRecords ==
  \A i \in Invs : Succeeded(i) =>
    /\ Cardinality(CreatedBy(i)) = 1
    /\ \A k \in CreatedBy(i) :
         /\ IsAgentName(agents[k].name)
         /\ agents[k].image \in PublishedUris
         /\ Len(Puts(i)) = 2
         /\ Puts(i)[1].key = "agents/agent-" \o SubSeq(agents[k].name, 12, 26)
                               \o ".json"
         /\ Puts(i)[2].key = "agents/latest.json"
         /\ \A n \in 1..2 :
              /\ JsonLoads(Puts(i)[n].body).agent_id = agents[k].id
              /\ JsonLoads(Puts(i)[n].body).image_uri = agents[k].image
              /\ JsonLoads(Puts(i)[n].body).agent_name = agents[k].name

\* both invocations returned 200, with different timestamps
C1_Witness ==
  /\ \A i \in Invs : Succeeded(i)
  /\ agents[1].name # agents[2].name
  /\ agents[1].image # agents[2].image

\* C2: an invocation that ran while the repository held no image returned
\* 400 'No images found' after the single call describe_images: it updated
\* no function, created no agent or action group and wrote no object.
C2_EmptyRepository ==
  \A i \in Invs :
    /\ (Returned(i) /\ images = <<>>) =>
         /\ result[i].statusCode = 400
         /\ result[i].body = "No images found"
    /\ (Returned(i) /\ result[i].statusCode = 400
          /\ result[i].body = "No images found") =>
         /\ Ops(i) = <<"describe_images">>
         /\ CreatedBy(i) = {}
         /\ Puts(i) = <<>>

\* two invocations met the empty repository
C2_Witness ==
  /\ images = <<>>
  /\ \A i \in Invs : Returned(i) /\ result[i].body = "No images found"

\* C3: an invocation that found an image but no compute function returned
\* 400 'Lambda not found' after describe_images and update_function_code
\* only: the function still does not exist, no agent was created and no
\* object was written.
C3_FunctionMissing ==
  /\ [](\A i \in Invs :
         /\ (Returned(i) /\ images # <<>> /\ ~toolFn.exists
               /\ Len(calls[i]) > 1) =>
              /\ result[i].statusCode = 400
              /\ result[i].body = "Lambda not found"
         /\ (Returned(i) /\ result[i].statusCode = 400
               /\ result[i].body = "Lambda not found") =>
              /\ Ops(i) = <<"describe_images", "update_function_code">>
              /\ CreatedBy(i) = {}
              /\ Puts(i) = <<>>)
  /\ [][\A i \in Invs :
         (/\ pc[i] = "update_function_code"
          /\ ~toolFn.exists
          /\ pc'[i] \notin {pc[i], "raised"}) =>
           /\ pc'[i] = "returned"
           /\ result'[i].statusCode = 400
           /\ result'[i].body = "Lambda not found"
           /\ toolFn' = toolFn
           /\ agents' = agents
           /\ s3' = s3]_vars

\* an invocation triggered by a push found no compute function
C3_Witness ==
  /\ images # <<>>
  /\ ~toolFn.exists
  /\ \E i \in Invs : Returned(i) /\ result[i].statusCode = 400
                     /\ result[i].body = "Lambda not found"

\* the statuses deploy() has read in its poll loop, in order
Observed ==
  LET polls == SelectSeq(dcalls, LAMBDA c : c[1] = "batch_get_builds")
  IN [k \in 1..Len(polls) |-> polls[k][2]]

\* the operations deploy() has called
DeployOps == {dcalls[k][1] : k \in 1..Len(dcalls)}

TerminalStatuses == {"SUCCEEDED", "FAILED", "FAULT", "TIMED_OUT", "STOPPED"}

\* C4: the poll loop ends at the first terminal status it reads.  If that
\* status is SUCCEEDED, deploy() reports success and is at (or past) its
\* post-build steps; if it is FAILED, FAULT, TIMED_OUT or STOPPED, deploy()
\* reports failure, has returned False and has made none of the post-build
\* calls.  Before a terminal status is read nothing is reported and no
\* post-build call is made.
C4_PollLoop ==
  LET obs == Observed
      n == Len(obs)
  IN /\ \A k \in 1..n : obs[k] \in TerminalStatuses => k = n
     /\ (n > 0 /\ obs[n] = "SUCCEEDED") =>
          /\ dloc.report = "succeeded"
          /\ dpc \in PostBuildSteps \cup {"returned", "raised"}
          /\ dloc.returned # "False"
     /\ (n > 0 /\ obs[n] \in {"FAILED", "FAULT", "TIMED_OUT", "STOPPED"}) =>
          /\ dloc.report = "failed"
          /\ dpc = "returned"
          /\ dloc.returned = "False"
          /\ DeployOps \cap PostBuildOps = {}
     /\ (n = 0 \/ obs[n] \notin TerminalStatuses) =>
          /\ dloc.report = ""
          /\ DeployOps \cap PostBuildOps = {}
          /\ dpc \in {"idle", "d_put_object", "d_start_build", "poll", "raised"}

\* deploy() read PENDING, IN_PROGRESS, SUCCEEDED and ran to its end
C4_Witness ==
  /\ Observed = <<"PENDING", "IN_PROGRESS", "SUCCEEDED">>
  /\ dpc = "returned"
  /\ PostBuildOps \ {"update_function_code"} \subseteq DeployOps

\* no remote call of the run r failed other than with 'already exists':
\* no step failed and the identity call at its start did not raise
NoCallFailed(r) ==
  r.errs = {} /\ r.log # <<"get_caller_identity", "raise">>

\* C5: a run of setup() in which no remote call fails (other than with
\* 'already exists') completes; and when two such runs follow each other,
\* the second leaves the same resources (no new resource, policy, permission
\* statement or target), the same configuration, and obtains the same
\* identifiers as the first.
C5_SetupIdempotent ==
  /\ \A k \in 1..Len(runs) : NoCallFailed(runs[k]) => runs[k].outcome = "done"
  /\ \A k \in 1..(Len(runs) - 1) :
       (NoCallFailed(runs[k]) /\ NoCallFailed(runs[k + 1])) =>
         /\ runs[k + 1].resources = runs[k].resources
         /\ runs[k + 1].cloud = runs[k].cloud
         /\ runs[k + 1].ids = runs[k].ids

\* setup() created everything on an empty account, then ran again
C5_Witness ==
  /\ Len(runs) = 2
  /\ \A k \in 1..2 : runs[k].errs = {} /\ runs[k].outcome = "done"
  /\ runs[1].cloud = Provisioned
  /\ Len(SelectSeq(runs[1].log, LAMBDA e : e = "sleep")) = 4
  /\ Len(SelectSeq(runs[2].log, LAMBDA e : e = "get_role")) = 3

\* C6 (as claimed): whenever a creation step of the current run has failed
\* with an error other than 'already exists', the run is aborted: no later
\* step executes and the run does not complete.
C6_CreationErrorsFatal ==
  (serrs \cap CreationSteps # {}) => spc = "aborted"

\* C7: whenever no invocation is in progress, agents/latest.json holds the
\* record of the invocation that most recently returned 200 (its agent_id,
\* agent_name, version and image_uri), and does not exist if none did.
C7_LatestIsLastSuccess ==
  Quiescent =>
    IF lastOk = 0
      THEN "agents/latest.json" \notin DOMAIN s3
      ELSE /\ "agents/latest.json" \in DOMAIN s3
           /\ \A k \in 1..Len(SummaryFields) :
                JsonLoads(s3["agents/latest.json"])[SummaryFields[k]]
                  = JsonLoads(result[lastOk].body)[SummaryFields[k]]

\* both invocations returned 200, the first one last
C7_Witness ==
  /\ Quiescent
  /\ \A i \in Invs : Succeeded(i)
  /\ lastOk = 1
  /\ JsonLoads(result[1].body).agent_id # JsonLoads(result[2].body).agent_id

\* C8: an invocation that failed (a 400 return or an uncaught error of a
\* remote call) made no put_object to agents/latest.json; so when every
\* invocation so far has failed, the pointer is as it was at the start
\* (absent), whatever step each one failed at.
C8_FailureKeepsLatest ==
  /\ \A i \in Invs : Failed(i) =>
       \A k \in 1..Len(calls[i]) :
         calls[i][k].op = "put_object" => calls[i][k].key # "agents/latest.json"
  /\ (\A i \in Invs : pc[i] = "idle" \/ Failed(i)) =>
       "agents/latest.json" \notin DOMAIN s3

\* an invocation failed at its last remote call, after writing the versioned
\* record, while the pointer held the record of an earlier success
C8_Witness ==
  \E i, j \in Invs :
    /\ Succeeded(j)
    /\ Raised(i)
    /\ Len(Puts(i)) = 1
    /\ calls[i][Len(calls[i])].key = "put_object"
    /\ "agents/latest.json" \in DOMAIN s3
    /\ JsonLoads(s3["agents/latest.json"]).agent_id
         = JsonLoads(result[j].body).agent_id

\* the images pushed so far
Pushed == {Digest(n) : n \in 1..pushes}

\* C9 (as claimed): once deploy() has returned, every push has been relayed,
\* no invocation is running and none met a failing remote call, every pushed
\* image has an agent created for it whose action group executes the compute
\* function.
C9_EveryPushGetsAgent ==
  (dpc = "returned" /\ events = <<>> /\ Quiescent
     /\ \A i \in Invs : ~Raised(i)) =>
    \A d \in Pushed :
      \E k \in 1..Len(agents) :
        /\ agents[k].image = ImageUri(d)
        /\ agents[k].executor = FunctionArn(ToolFunctionName)
        /\ agents[k].prepared

\* C10 (as claimed): no two agents are created for the same image digest.
C10_OneAgentPerDigest ==
  \A j, k \in 1..Len(agents) : agents[j].image = agents[k].image => j = k

\* the first position of entry e in the log, 0 when it is absent
Pos(log, e) ==
  IF \E k \in 1..Len(log) : log[k] = e
    THEN CHOOSE k \in 1..Len(log) :
           log[k] = e /\ \A j \in 1..(k - 1) : log[j] # e
    ELSE 0

\* in the log, the step that ensures a role, and the entry after it, come
\* before the step that uses the role
EnsuredBefore(log, roleStep, useStep) ==
  Pos(log, useStep) > 0 =>
    /\ Pos(log, roleStep) > 0
    /\ Pos(log, roleStep) + 1 < Pos(log, useStep)
    /\ log[Pos(log, roleStep) + 1] \in {"sleep", "get_role"}

\* the steps of setup() that create or configure the reactor function
FunctionSteps == {"create_function", "update_function_code",
                  "update_function_configuration"}

\* C11: in every run of setup() the reactor role and the agent role exist,
\* and their ARNs are known, before the reactor function is created or
\* configured, and the build role exists before the build project is
\* created; and a step that creates a role that did not exist waits
\* (sleep) before the run goes on to any later step.
C11_RolesBeforeUse ==
  /\ [](/\ \A u \in FunctionSteps :
            /\ EnsuredBefore(slog, "create_role(agent)", u)
            /\ EnsuredBefore(slog, "create_role(lambda)", u)
            /\ (spc = u \/ Pos(slog, u) > 0) =>
                 /\ Exists(RoleKey(AgentRole)) /\ Exists(RoleKey(LambdaRole))
                 /\ sids.agent_role_arn = RoleArn(AgentRole)
                 /\ sids.role_arn = RoleArn(LambdaRole)
        /\ (spc = "create_project" \/ Pos(slog, "create_project") > 0) =>
             /\ Exists(RoleKey(CodeBuildRole))
             /\ sids.cb_role_arn = RoleArn(CodeBuildRole)
             /\ Pos(slog, "create_role(codebuild)") > 0
             /\ Pos(slog, "create_role(codebuild)") < Pos(slog, "put_role_policy(codebuild)"))
  /\ [][\A r \in {AgentRole, LambdaRole, ToolRole, CodeBuildRole} :
         (~Exists(RoleKey(r)) /\ RoleKey(r) \in DOMAIN cloud') =>
           /\ Len(slog') = Len(slog) + 2
           /\ slog'[Len(slog')] = "sleep"
           /\ slog'[Len(slog') - 1] = spc]_vars

\* a run on an account without roles created all four, then the function
\* and the build project
C11_Witness ==
  /\ spc = "done"
  /\ Len(runs) = 1
  /\ serrs = {}
  /\ Len(SelectSeq(slog, LAMBDA e : e = "sleep")) = 4
  /\ Pos(slog, "create_function") > 0
  /\ Pos(slog, "create_project") > 0
  /\ ProjectKey \in DOMAIN cloud /\ cloud[ProjectKey] = NewProject(RoleArn(CodeBuildRole))

\* the configuration setup() asks for, as far as the registry c holds it
DesiredPolicies(c) ==
  /\ "AmazonBedrockFullAccess" \in c[RoleKey(AgentRole)].attached
  /\ <<"AgentCorePolicy", RoleArn(AgentRole)>> \in c[RoleKey(LambdaRole)].inline
  /\ "AWSLambdaBasicExecutionRole" \in c[RoleKey(ToolRole)].attached
  /\ <<"CodeBuildPolicy", "ecr+s3+logs">> \in c[RoleKey(CodeBuildRole)].inline

DesiredFunction(c) ==
  /\ c[FunctionKey].code = "auto_deploy_lambda.py"
  /\ c[FunctionKey].env = ReactorEnv(RoleArn(AgentRole))

DesiredRule(c) ==
  /\ c[RuleKey].pattern = PushPattern
  /\ <<"1", FunctionArn(ReactorFunction)>> \in c[RuleKey].targets

DesiredProject(c) ==
  c[ProjectKey] = NewProject(RoleArn(CodeBuildRole))

\* C12 (as claimed): after every completed run of setup() in which no remote
\* call failed, whatever the resources that existed before were configured
\* like, the role policies, the reactor function's code and environment,
\* the event rule's pattern and target and the build project's source,
\* environment and service role are the ones setup() asks for.
C12_ConfigurationConverges ==
  \A k \in 1..Len(runs) :
    (runs[k].outcome = "done" /\ runs[k].errs = {}) =>
      /\ DesiredPolicies(runs[k].cloud)
      /\ DesiredFunction(runs[k].cloud)
      /\ DesiredRule(runs[k].cloud)
      /\ DesiredProject(runs[k].cloud)

\* C13: the poll loop of deploy() is left (by break or return) only on a
\* pass that read a terminal status; a pass that read PENDING or IN_PROGRESS
\* stays in the loop, however many passes came before; and once the build
\* is in a terminal status the loop is eventually left.
C13_PollUntilTerminal ==
  /\ [][(dpc = "poll" /\ dpc' \notin {"poll", "raised"}) =>
          /\ build \in TerminalStatuses
          /\ dcalls'[Len(dcalls')] = <<"batch_get_builds", build>>]_vars
  /\ [][(dpc = "poll" /\ build \in NonTerminal
            /\ Len(dcalls') > Len(dcalls) /\ dpc' # "raised") =>
          /\ dpc' = "poll"
          /\ dcalls'[Len(dcalls')] = <<"batch_get_builds", build>>]_vars
  /\ ((dpc = "poll" /\ build \in TerminalStatuses) ~> (dpc # "poll"))

\* the loop read a non-terminal status as many times as the bound allows
\* and was then left on a terminal one
C13_Witness ==
  /\ dloc.polls = MaxPolls
  /\ dpc \in PostBuildSteps \cup {"returned"}
  /\ Len(Observed) = MaxPolls + 1
  /\ Observed[Len(Observed)] \in TerminalStatuses

\* C14 (as claimed): when deploy() makes its check of the latest record
\* after a reactor run has written the record under the pointer key, the
\* check reads the object back: the six fields with the values written.
C14_RecordRoundTrip ==
  [][(dpc = "d_get_object" /\ dpc' = "returned"
        /\ "agents/latest.json" \in DOMAIN s3) =>
      /\ dloc'.config.found
      /\ DOMAIN JsonLoads(dloc'.config.body) =
           {"agent_id", "agent_name", "version", "image_uri", "lambda_arn",
            "created_at"}
      /\ JsonLoads(dloc'.config.body) = JsonLoads(s3["agents/latest.json"])]_vars

\* C15: a step of a reactor invocation never removes an agent, and changes
\* an agent (its action group, its prepared state) only when that agent was
\* created by the same invocation and is the one whose id the invocation
\* holds; the id, name and image of an agent never change.
C15_OnlyOwnAgent ==
  [][/\ Len(agents') >= Len(agents)
     /\ \A k \in 1..Len(agents) :
          agents'[k] # agents[k] =>
            /\ \E i \in Invs :
                 /\ pc[i] \in {"create_agent_action_group", "prepare_agent"}
                 /\ pc'[i] # pc[i]
                 /\ agents[k].by = i
                 /\ agents[k].id = loc[i].agent_id
            /\ agents'[k].id = agents[k].id
            /\ agents'[k].name = agents[k].name
            /\ agents'[k].by = agents[k].by
            /\ agents'[k].image = agents[k].image]_vars

\* the second invocation attached its action group and prepared its agent
\* while the agent of the first one existed, and left that agent as it was
C15_Witness ==
  /\ Len(agents) = 2
  /\ agents[1].by # agents[2].by
  /\ agents[2].prepared /\ agents[2].functions = ToolSchema
  /\ ~agents[1].prepared /\ agents[1].functions = {}

\* the numbers the numerals of the requests stand for
NumeralValues == {<<"0", 0>>, <<"2", 2>>, <<"40", 40>>, <<"-7", 0 - 7>>,
                  <<"123", 123>>}
IsNumber(str) == \E q \in NumeralValues : q[1] = str
NumberOf(str) == (CHOOSE q \in NumeralValues : q[1] = str)[2]

\* C16 (as claimed): every request is answered with the response envelope;
\* for the tool name 'calculate' the body is the sum of a and b, for
\* 'get_weather' its weather field is 'Sunny in <city>', and for any other
\* tool name it is {"error": "Unknown tool: <name>"}.
C16_ToolDispatch ==
  tpc = "responded" =>
    LET name == ToolName(tevent.function, tevent.apiPath)
        a == ParamGet(tevent.parameters, "a", "0")
        b == ParamGet(tevent.parameters, "b", "0")
        city == ParamGet(tevent.parameters, "city", "Unknown")
    IN /\ tresp.raised = ""
       /\ tresp.messageVersion = "1.0"
       /\ tresp.actionGroup = tevent.actionGroup
       /\ tresp.function = tevent.function
       /\ (name = Some("calculate") /\ IsNumber(a) /\ IsNumber(b)) =>
            tresp.body = "{\"result\": " \o FloatRepr(NumberOf(a) + NumberOf(b)) \o "}"
       /\ name = Some("get_weather") =>
            tresp.body = "{\"weather\": \"Sunny in " \o city
                           \o "\", \"temperature\": 72, \"humidity\": 65}"
       /\ name \notin {Some("calculate"), Some("get_weather")} =>
            tresp.body = "{\"error\": \"Unknown tool: " \o Fmt(name) \o "\"}"

\* C17: once the script has selected an agent it issues its prompts in
\* order, each against that agent, whatever the outcome of the earlier
\* ones: a failed prompt is logged as an error and the script goes on; it
\* ends having issued all three.
C17_PromptsIndependent ==
  /\ vpc = "raised" => vlog = <<>>
  /\ vpc = "done" => Len(vlog) = 3
  /\ \A k \in 1..3 : vpc = PromptSteps[k] => Len(vlog) = k - 1
  /\ \A k \in 1..Len(vlog) :
       /\ vlog[k].agentId = vagent.agentId
       /\ vlog[k].sessionId = Prompts[k].sessionId
       /\ vlog[k].inputText = Prompts[k].inputText
       /\ vlog[k].outcome \in {"ok", "error"}
  /\ vlog # <<>> => << vagent >> = LatestAgent(vlisting)

\* the first two prompts failed and the third was still issued, against the
\* agent chosen among several
C17_Witness ==
  /\ vpc = "done"
  /\ Len(vlisting) = 3
  /\ vagent.agentId = "AGENT2"
  /\ vlog[1].outcome = "error" /\ vlog[2].outcome = "error"
  /\ vlog[3].outcome = "ok"

\* the order of operations as claimed; the two put_object calls are the
\* versioned record and then the latest record
ClaimedOrder ==
  <<"describe_images", "update_function_code", "sleep", "create_agent",
    "sleep", "create_agent_action_group", "prepare_agent", "put_object",
    "put_object">>

\* the operations of invocation i other than the read of the function's
\* ARN and a final raise
OrderedOps(i) ==
  SelectSeq(Ops(i), LAMBDA op : op \notin {"get_function", "raise"})

\* the agents with identifier id
AgentsWithId(id) == {k \in 1..Len(agents) : agents[k].id = id}

\* C18: the operations an invocation has made so far are an initial part
\* of: read image, update function code, wait, create agent, wait, attach
\* action group, prepare agent, write versioned record, write latest
\* record; nothing follows an operation that raised; and the agent a
\* written record names has an action group executed by the compute
\* function and has been prepared.
C18_OperationOrder ==
  /\ \A i \in Invs :
       /\ Len(OrderedOps(i)) <= Len(ClaimedOrder)
       /\ OrderedOps(i) = SubSeq(ClaimedOrder, 1, Len(OrderedOps(i)))
       /\ \A k \in 1..(Len(calls[i]) - 1) : calls[i][k].op # "raise"
       /\ Len(Puts(i)) >= 1 =>
            Puts(i)[1].key = "agents/agent-"
                               \o JsonLoads(Puts(i)[1].body).version \o ".json"
       /\ Len(Puts(i)) = 2 => Puts(i)[2].key = "agents/latest.json"
  /\ \A key \in DOMAIN s3 :
       \A k \in AgentsWithId(JsonLoads(s3[key]).agent_id) :
         /\ agents[k].prepared
         /\ agents[k].functions = {"get_weather", "calculate"}
         /\ agents[k].executor = JsonLoads(s3[key]).lambda_arn
         /\ agents[k].executor =
              "arn:aws:lambda:us-east-1:123456789012:function:AgentCoreToolExecutor"

\* an invocation went through all its operations
C18_Witness ==
  \E i \in Invs :
    /\ Succeeded(i)
    /\ Ops(i) = <<"describe_images", "update_function_code", "get_function",
                  "sleep", "create_agent", "sleep",
                  "create_agent_action_group", "prepare_agent", "put_object",
                  "put_object">>
    /\ "agents/latest.json" \in DOMAIN s3

\* the steps of an invocation that come after create_agent
AfterCreation == {"create_agent_action_group", "prepare_agent",
                  "put_versioned", "put_latest"}

\* C19: when a call after create_agent raises, the step leaves the agents
\* and the compute function as they were, and the agent the invocation
\* created is still there; an invocation that has raised does nothing
\* more; no step ever removes an agent; and the function's image changes
\* only when an invocation's update_function_code sets it.
C19_NoRollback ==
  /\ [](\A i \in Invs :
         (Raised(i) /\ \E k \in 1..Len(calls[i]) : calls[i][k].op = "create_agent")
           => CreatedBy(i) # {})
  /\ [][/\ \A i \in Invs :
           /\ (pc[i] \in AfterCreation /\ pc'[i] = "raised") =>
                /\ agents' = agents
                /\ toolFn' = toolFn
                /\ s3' = s3
                /\ CreatedBy(i) # {}
           /\ pc[i] = "raised" => (pc'[i] = "raised" /\ calls'[i] = calls[i])
        /\ Len(agents') >= Len(agents)
        /\ \A k \in 1..Len(agents) : agents'[k].id = agents[k].id
        /\ toolFn' # toolFn =>
             \E j \in Invs : /\ pc[j] = "update_function_code"
                              /\ pc'[j] = "get_function"
                              /\ toolFn'.image = loc[j].image_uri]_vars

\* prepare_agent raised: the agent, with its action group, and the image
\* the invocation gave the function are still there
C19_Witness ==
  \E i \in Invs :
    /\ Raised(i)
    /\ calls[i][Len(calls[i])] = Raise("prepare_agent")
    /\ \E k \in CreatedBy(i) :
         /\ agents[k].functions = ToolSchema
         /\ ~agents[k].prepared
         /\ toolFn.image = agents[k].image

\* key is a version-specific key agents/agent-<timestamp>.json
IsVersionedKey(key) ==
  Len(key) > 13 /\ SubSeq(key, 1, 13) = "agents/agent-"

\* C20 (as claimed): once a record is stored under a version-specific key,
\* no step of any invocation changes what is stored under that key.
C20_VersionedImmutable ==
  [][\A key \in DOMAIN s3 :
       IsVersionedKey(key) => (key \in DOMAIN s3' /\ s3'[key] = s3[key])]_vars

\* C21 (as claimed): whenever agents/latest.json exists, the version-specific
\* key agents/agent-<version>.json named by its version field exists too and
\* holds the same content, also while invocations overlap.
C21_PointerMatchesHistory ==
  "agents/latest.json" \in DOMAIN s3 =>
    /\ VersionedKey(JsonLoads(s3["agents/latest.json"]).version) \in DOMAIN s3
    /\ s3[VersionedKey(JsonLoads(s3["agents/latest.json"]).version)]
         = s3["agents/latest.json"]

\* C22 (as claimed): whenever no invocation of the reactor and no deploy() run
\* is in progress, and no invocation met a failing remote call, the image of
\* the compute function AgentCoreToolExecutor equals the image_uri stored in
\* agents/latest.json, for every interleaving of invocations and publishes.
C22_FunctionMatchesPointer ==
  (/\ Quiescent
   /\ dpc \in {"idle", "returned", "raised"}
   /\ \A i \in Invs : ~Raised(i)
   /\ "agents/latest.json" \in DOMAIN s3) =>
    toolFn.image = JsonLoads(s3["agents/latest.json"]).image_uri

\* the operations deploy() has called so far, in order
DeployCalled == [k \in 1..Len(dcalls) |-> dcalls[k][1]]

\* C23: a deploy() run whose build succeeded and whose remote calls succeed
\* leaves the compute function existing and pointing at the digest-qualified
\* reference of the image it read after the build, whether or not the
\* function existed before: an absent function is created with that image,
\* and on the 'already exists' conflict update_function_code sets it.
C23_DeployEnsuresFunction ==
  /\ [](dpc = "d_get_object" \/ (dpc = "returned" /\ dloc.returned = "None") =>
         /\ toolFn.exists
         /\ \E d \in Pushed : dloc.image_uri = ImageUri(d)
         /\ \E k \in 1..Len(dcalls) :
              /\ dcalls[k] \in {<<"create_function", dloc.image_uri>>,
                                <<"update_function_code", dloc.image_uri>>}
              /\ \A j \in 1..Len(dcalls) : dcalls[j][1] # "raise")
  /\ [][(dpc \in {"d_create_function", "d_update_function_code"}
           /\ dpc' = "d_get_object") =>
          /\ toolFn' = [exists |-> TRUE, image |-> dloc.image_uri]
          /\ IF dpc = "d_create_function"
               THEN ~toolFn.exists
               ELSE /\ toolFn.exists
                    /\ DeployCalled[Len(dcalls)] = "create_function"]_vars

\* deploy() returned after the conflict branch moved a function that existed
\* with another image to the image it read after the build
C23_Witness ==
  /\ dpc = "returned"
  /\ dloc.returned = "None"
  /\ <<"update_function_code", ImageUri(Digest(1))>> \in
       {dcalls[k] : k \in 1..Len(dcalls)}
  /\ \A i \in Invs : pc[i] = "idle"
  /\ toolFn = [exists |-> TRUE, image |-> ImageUri(Digest(1))]
====
